---------------------------- MODULE Spec2Model ----------------------------
(***************************************************************************)
(* fb2converter: the keyword template engine (processor.ReplaceKeywords)   *)
(* and the EPUB archive finalizer (Processor.FinalizeEPUB).                *)
(*                                                                         *)
(* Strings are sequences of one-character strings; an index is Go's        *)
(* 0-based byte index unless an operator says otherwise.                   *)
(***************************************************************************)
EXTENDS Integers, Sequences, FiniteSets, TLC

VARIABLES
    \* ---- ReplaceKeywords ----
    pattern,    \* the string the outermost call was given
    m,          \* the keyword map (key string -> value string)
    cur,        \* parameter `in` of the active ReplaceKeywords call
    depth,      \* number of recursive ReplaceKeywords calls made so far
    rkpc,       \* position inside the active call
    bopen,      \* local bopen of the active call
    bclose,     \* local bclose of the active call
    ectx,       \* which call site of expandAll is running: "region" | "flat"
    ein0,       \* the argument expandAll was called with
    ein,        \* expandAll's local `in`, rewritten key by key
    keys,       \* expandAll's sorted `keys` slice
    ki,         \* expandAll's loop index i, as a 1-based position in keys
    expanded,   \* expandAll's local `expanded`
    eout,       \* value returned by the last expandAll call
    result,     \* value returned by the outermost ReplaceKeywords call
    \* ---- FinalizeEPUB: what the call is given ----
    sep,        \* os.PathSeparator of the platform
    fname,      \* the output path, as the components it names
    fsep,       \* the separator the caller spelled fname with
    overwrite,  \* p.overwrite
    debug,      \* p.env.Debug
    \* ---- FinalizeEPUB: the file system ----
    fs,         \* what is at each path: "none" | "file" | "dir" | "link"
    outData,    \* contents of the file at fname
    \* ---- FinalizeEPUB: the call ----
    fpc,        \* position inside FinalizeEPUB
    err,        \* the error the call returns ("nil": none)
    statRes,    \* outcome of os.Stat(fname)
    content,    \* local `content`
    entries,    \* the archive entries written, in order
    defers,     \* the deferred calls, last registered last
    openLog,    \* f and epub in the order they were opened
    closeLog,   \* f and epub in the order they were closed
    rOpened,    \* member readers opened by saveFile
    rClosed,    \* member readers closed by saveFile
    walkList,   \* paths filepath.Walk has still to hand to saveFile
    trail,      \* the phases this call went through
    runs,       \* calls of FinalizeEPUB started so far
    callKind,   \* what was at fname when this call began
    callData    \* contents of the file at fname when this call began

rkVars == <<pattern, m, cur, depth, rkpc, bopen, bclose, ectx, ein0, ein,
            keys, ki, expanded, eout, result>>

finVars == <<sep, fname, fsep, overwrite, debug, fs, outData, fpc, err,
             statRes, content, entries, defers, openLog, closeLog, rOpened,
             rClosed, walkList, trail, runs, callKind, callData>>

vars == <<rkVars, finVars>>

-----------------------------------------------------------------------------
(* Bounds of the model *)

\* longest generated pattern, counted in tokens of Tokens
MaxTok == 4

\* recursive calls after which a run of ReplaceKeywords is cut off
MaxDepth == 3

\* calls of FinalizeEPUB in a row
MaxRuns == 2

-----------------------------------------------------------------------------
(* Strings *)

Empty == << >>

LBrace == "{"
RBrace == "}"
BSlash == "\\"

\* byte value of a character (the ones the model's strings are made of)
CharCode(c) ==
    CASE c = " " -> 32 [] c = "#" -> 35 [] c = "-" -> 45
      [] c = "A" -> 65 [] c = "B" -> 66 [] c = "Y" -> 89
      [] c = "\\" -> 92
      [] c = "a" -> 97 [] c = "b" -> 98 [] c = "d" -> 100 [] c = "e" -> 101
      [] c = "h" -> 104 [] c = "i" -> 105 [] c = "l" -> 108 [] c = "n" -> 110
      [] c = "o" -> 111 [] c = "r" -> 114 [] c = "s" -> 115 [] c = "t" -> 116
      [] c = "u" -> 117 [] c = "x" -> 120
      [] c = "{" -> 123 [] c = "}" -> 125

\* a < b for Go strings: bytewise lexicographic order
RECURSIVE LessStr(_, _)
LessStr(a, b) ==
    IF b = Empty THEN FALSE
    ELSE IF a = Empty THEN TRUE
    ELSE IF CharCode(Head(a)) # CharCode(Head(b))
         THEN CharCode(Head(a)) < CharCode(Head(b))
    ELSE LessStr(Tail(a), Tail(b))

\* key occurs in s at 1-based position i
MatchAt(s, i, key) ==
    /\ i + Len(key) - 1 <= Len(s)
    /\ \A j \in 1..Len(key) : s[i + j - 1] = key[j]

\* strings.Index(s, key): 0-based index of the first occurrence, or -1
Index(s, key) ==
    LET hits == {i \in 1..Len(s) : MatchAt(s, i, key)}
    IN  IF hits = {} THEN -1
        ELSE (CHOOSE i \in hits : \A j \in hits : i <= j) - 1

\* strings.Replace(s, key, value, -1) for a non-empty key: the
\* non-overlapping occurrences, left to right, from 1-based position i
RECURSIVE ReplaceFrom(_, _, _, _)
ReplaceFrom(s, i, key, value) ==
    IF i > Len(s) THEN Empty
    ELSE IF MatchAt(s, i, key)
         THEN value \o ReplaceFrom(s, i + Len(key), key, value)
    ELSE <<s[i]>> \o ReplaceFrom(s, i + 1, key, value)

Replace(s, key, value) == ReplaceFrom(s, 1, key, value)

\* Go's in[a:b] with 0-based bounds
Slice(s, a, b) == SubSeq(s, a + 1, b)

-----------------------------------------------------------------------------
(* ReplaceKeywords: the helpers *)

\* expandKeyword reporting that the key was found, whatever its value
expandKeywordFound(in, key, value) ==
    IF Index(in, key) # -1
    THEN <<Replace(in, key, value), TRUE>>
    ELSE <<in, FALSE>>

\* expandKeyword: <<rewritten string, whether a non-empty value went in>>
expandKeyword(in, key, value) ==
    IF Index(in, key) # -1
    THEN <<Replace(in, key, value), Len(value) > 0>>
    ELSE <<in, FALSE>>

\* the keys sorted the other way round
RECURSIVE SortStringsDescending(_)
SortStringsDescending(S) ==
    IF S = {} THEN << >>
    ELSE LET most == CHOOSE k \in S : \A o \in S \ {k} : LessStr(o, k)
         IN  <<most>> \o SortStringsDescending(S \ {most})

\* sort.Strings over the keys of the map: ascending
RECURSIVE SortStrings(_)
SortStrings(S) ==
    IF S = {} THEN << >>
    ELSE LET least == CHOOSE k \in S : \A o \in S \ {k} : LessStr(k, o)
         IN  <<least>> \o SortStrings(S \ {least})

\* is the brace at 0-based index i unescaped: i == 0 || in[i-1] != '\\'
Unescaped(in, i) == i = 0 \/ in[i] # BSlash

\* a scan that keeps the first '{' it meets
RECURSIVE ScanFromFirstOpen(_, _, _)
ScanFromFirstOpen(in, i, bo) ==
    IF i >= Len(in) THEN <<bo, -1>>
    ELSE IF in[i + 1] = LBrace /\ (i = 0 \/ in[i] # BSlash)
         THEN ScanFromFirstOpen(in, i + 1, IF bo = -1 THEN i ELSE bo)
    ELSE IF in[i + 1] = RBrace /\ (i = 0 \/ in[i] # BSlash) THEN <<bo, i>>
    ELSE ScanFromFirstOpen(in, i + 1, bo)

\* the scan loop from 0-based index i on, bopen being bo so far:
\* <<bopen, bclose>> as the loop leaves them
RECURSIVE ScanFrom(_, _, _)
ScanFrom(in, i, bo) ==
    IF i >= Len(in) THEN <<bo, -1>>
    ELSE IF in[i + 1] = LBrace /\ Unescaped(in, i) THEN ScanFrom(in, i + 1, i)
    ELSE IF in[i + 1] = RBrace /\ Unescaped(in, i) THEN <<bo, i>>
    ELSE ScanFrom(in, i + 1, bo)

Scan(in) == ScanFrom(in, 0, -1)

\* the test that sends a call into the region branch
HasRegion(bo, bc) == bo >= 0 /\ bc > 0 /\ bo < bc

\* the argument of the recursive call: in[:bopen] + inner + in[bclose+1:]
Splice(in, bo, bc, inner) ==
    Slice(in, 0, bo) \o inner \o Slice(in, bc + 1, Len(in))

-----------------------------------------------------------------------------
(* ReplaceKeywords: the inputs *)

KeyX  == <<"#", "x">>
KeyXS == <<"#", "x", "s">>
KeyS  == <<"#", "s">>
ValY  == <<"Y">>
\* a value that is itself a conditional region around its own key
ValRegionX == <<"{", "#", "x", "}">>

Tokens == {<<"{">>, <<"}">>, <<"\\">>, <<"#">>, KeyX, <<"s">>}

\* every concatenation of at most n tokens
RECURSIVE TokenStrings(_)
TokenStrings(n) ==
    IF n = 0 THEN {Empty}
    ELSE LET shorter == TokenStrings(n - 1)
         IN  shorter \cup {t \o p : t \in Tokens, p \in shorter}

Keys == {KeyX, KeyXS, KeyS}

\* the values a key may have: empty, plain text, and for #x a value with
\* braces, for #xs a value that is another key
ValuesOf(k) ==
    CASE k = KeyX  -> {Empty, ValY, ValRegionX}
      [] k = KeyXS -> {Empty, ValY, KeyS}
      [] OTHER     -> {Empty, ValY}

Mappings ==
    UNION {{f \in [K -> {Empty, ValY, ValRegionX, KeyS}] :
              \A k \in K : f[k] \in ValuesOf(k)} : K \in SUBSET Keys}

NoKeys == [k \in {} |-> Empty]

\* the patterns and maps the documentation and the callers use
PatAXB       == <<"a", "{", "#", "x", "}", "b">>
PatEscaped   == <<"\\", "{", "l", "i", "t", "e", "r", "a", "l", "\\", "}">>
PatEscapedX  == <<"\\", "{", "#", "x", "\\", "}">>
PatAuthors   == <<"#", "a", "u", "t", "h", "o", "r", "s", "-",
                  "#", "a", "u", "t", "h", "o", "r">>
PatTitle     == <<"#", "x", "{", " ", "#", "s", "}">>
KeyAuthor    == <<"#", "a", "u", "t", "h", "o", "r">>
KeyAuthors   == <<"#", "a", "u", "t", "h", "o", "r", "s">>
ValAuthor    == <<"A">>
ValAuthors   == <<"A", " ", "a", "n", "d", " ", "B">>
MapAuthors   == (KeyAuthor :> ValAuthor) @@ (KeyAuthors :> ValAuthors)

Examples ==
    ({PatAXB, PatEscapedX, PatTitle} \X Mappings)
      \cup {<<PatEscaped, NoKeys>>, <<PatAuthors, MapAuthors>>}

Inputs == (TokenStrings(MaxTok) \X Mappings) \cup Examples

-----------------------------------------------------------------------------
(* ReplaceKeywords: the state machine.  The recursive call at the end of   *)
(* the region branch is the function's last step, so a run is a chain of   *)
(* calls, each working on `cur`; depth counts them.                        *)

InitTemplate ==
    /\ \E inp \in Inputs : pattern = inp[1] /\ m = inp[2]
    /\ cur = pattern
    /\ depth = 0
    /\ rkpc = "scan"
    /\ bopen = -1
    /\ bclose = -1
    /\ ectx = "none"
    /\ ein0 = Empty
    /\ ein = Empty
    /\ keys = << >>
    /\ ki = 0
    /\ expanded = FALSE
    /\ eout = Empty
    /\ result = Empty

\* the scan loop and the branch on its outcome, up to the expandAll call:
\* expandAll collects and sorts the keys and starts its loop at the last one
RKScan ==
    /\ UNCHANGED finVars
    /\ rkpc = "scan"
    /\ LET sc == Scan(cur)
           arg == IF HasRegion(sc[1], sc[2])
                  THEN Slice(cur, sc[1] + 1, sc[2])
                  ELSE cur
       IN  /\ bopen' = sc[1]
           /\ bclose' = sc[2]
           /\ ectx' = IF HasRegion(sc[1], sc[2]) THEN "region" ELSE "flat"
           /\ ein0' = arg
           /\ ein' = arg
    /\ keys' = SortStrings(DOMAIN m)
    /\ ki' = Len(keys')
    /\ expanded' = FALSE
    /\ rkpc' = "expand"
    /\ UNCHANGED <<pattern, m, cur, depth, eout, result>>

\* one iteration of expandAll's loop: for i := len(keys)-1; i >= 0; i--
ExpandStep ==
    /\ UNCHANGED finVars
    /\ rkpc = "expand"
    /\ ki >= 1
    /\ LET r == expandKeyword(ein, keys[ki], m[keys[ki]])
       IN  /\ ein' = r[1]
           /\ expanded' = (expanded \/ r[2])
    /\ ki' = ki - 1
    /\ UNCHANGED <<pattern, m, cur, depth, rkpc, bopen, bclose, ectx, ein0,
                   keys, eout, result>>

\* expandAll returns: "" unless something non-empty went in
ExpandReturn ==
    /\ UNCHANGED finVars
    /\ rkpc = "expand"
    /\ ki = 0
    /\ eout' = IF ~expanded THEN Empty ELSE ein
    /\ rkpc' = "expanded"
    /\ UNCHANGED <<pattern, m, cur, depth, bopen, bclose, ectx, ein0, ein,
                   keys, ki, expanded, result>>

\* region branch: return ReplaceKeywords(in[:bopen]+inner+in[bclose+1:], m)
RKRecurse ==
    /\ UNCHANGED finVars
    /\ rkpc = "expanded"
    /\ ectx = "region"
    /\ depth < MaxDepth
    /\ cur' = Splice(cur, bopen, bclose, eout)
    /\ depth' = depth + 1
    /\ rkpc' = "scan"
    /\ UNCHANGED <<pattern, m, bopen, bclose, ectx, ein0, ein, keys, ki,
                   expanded, eout, result>>

\* the model follows a chain of calls no further than MaxDepth
RKCutOff ==
    /\ UNCHANGED finVars
    /\ rkpc = "expanded"
    /\ ectx = "region"
    /\ depth >= MaxDepth
    /\ rkpc' = "cutoff"
    /\ UNCHANGED <<pattern, m, cur, depth, bopen, bclose, ectx, ein0, ein,
                   keys, ki, expanded, eout, result>>

\* flat branch: return expandAll(in, m), handed back unchanged by every
\* caller up the chain
RKReturn ==
    /\ UNCHANGED finVars
    /\ rkpc = "expanded"
    /\ ectx = "flat"
    /\ result' = eout
    /\ rkpc' = "done"
    /\ UNCHANGED <<pattern, m, cur, depth, bopen, bclose, ectx, ein0, ein,
                   keys, ki, expanded, eout>>

NextTemplate ==
    \/ RKScan
    \/ ExpandStep
    \/ ExpandReturn
    \/ RKRecurse
    \/ RKCutOff
    \/ RKReturn


-----------------------------------------------------------------------------
(* ReplaceKeywords: properties, stated on the text alone                   *)

\* k occurs in s somewhere
Occurs(s, k) ==
    \E i \in 1..(Len(s) - Len(k) + 1) : SubSeq(s, i, i + Len(k) - 1) = k

\* a is a proper prefix of b
ProperPrefix(a, b) == Len(a) < Len(b) /\ SubSeq(b, 1, Len(a)) = a

\* 0-based indices of the braces c of s that no backslash precedes
FreeBraces(s, c) ==
    {i \in 0..(Len(s) - 1) : s[i + 1] = c /\ (i = 0 \/ s[i] # "\\")}

Least(S) == CHOOSE x \in S : \A y \in S : x <= y
Greatest(S) == CHOOSE x \in S : \A y \in S : x >= y

\* the number of unescaped brace pairs of s
NumPairs(s) ==
    LET o == Cardinality(FreeBraces(s, "{"))
        c == Cardinality(FreeBraces(s, "}"))
    IN  IF o < c THEN o ELSE c

\* the scan of the active call is over and its outcome stands
Scanned == rkpc \in {"expand", "expanded", "cutoff", "done"}

\* C1: text outside a conditional region is always kept:
\* ReplaceKeywords("a{#x}b", m) is "a" + m["#x"] + "b" for every m with
\* key #x ("ab" for the empty value, "aYb" for "Y").
C1_OutsideTextKept ==
    (rkpc = "done" /\ pattern = PatAXB /\ KeyX \in DOMAIN m)
        => result = <<"a">> \o m[KeyX] \o <<"b">>

\* C2: escaped braces survive as literal braces:
\* ReplaceKeywords("\\{literal\\}", {}) is "{literal}".
C2_EscapedBracesSurvive ==
    (rkpc = "done" /\ pattern = PatEscaped /\ m = NoKeys)
        => result = <<"{", "l", "i", "t", "e", "r", "a", "l", "}">>

\* C3: flat expansion takes the keys in descending order: when a key's turn
\* comes, every key of the map it is a proper prefix of has had its turn;
\* and ReplaceKeywords("#authors-#author", {#author: A, #authors: A and B})
\* is "A and B-A".
C3_LongerKeyFirst ==
    /\ (rkpc = "expand" /\ ki >= 1)
         => \A k2 \in DOMAIN m :
              ProperPrefix(keys[ki], k2)
                => \E j \in (ki + 1)..Len(keys) : keys[j] = k2
    /\ (rkpc = "done" /\ pattern = PatAuthors /\ m = MapAuthors)
         => result = ValAuthors \o <<"-">> \o ValAuthor

\* C3 witness: #authors has been replaced and #author's turn has come
C3_Witness ==
    /\ rkpc = "expand"
    /\ pattern = PatAuthors
    /\ m = MapAuthors
    /\ ki = 1
    /\ keys[ki] = KeyAuthor
    /\ ein = ValAuthors \o <<"-">> \o KeyAuthor

\* C4: the number of recursive calls never exceeds the number of unescaped
\* brace pairs of the input pattern (so every run returns).
C4_CallsBoundedByPairs == depth <= NumPairs(pattern)

\* C8 as the specification states it: the region runs from the first
\* unescaped '{' of the pattern to the first unescaped '}' after it, and is
\* resolved whenever such a pair exists.
C8_FirstOpenToFirstClose ==
    Scanned =>
        LET opens == FreeBraces(cur, "{")
            after == IF opens = {} THEN {}
                     ELSE {c \in FreeBraces(cur, "}") : c > Least(opens)}
        IN  IF opens # {} /\ after # {}
            THEN /\ ectx = "region"
                 /\ bopen = Least(opens)
                 /\ bclose = Least(after)
            ELSE ectx = "flat"

\* C8 amended: the region runs from the last unescaped '{' that precedes
\* the first unescaped '}' of the pattern to that '}'; it is resolved
\* exactly when the first unescaped '}' has an unescaped '{' before it.
C8_LastOpenBeforeFirstClose ==
    Scanned =>
        LET closes == FreeBraces(cur, "}")
            before == IF closes = {} THEN {}
                      ELSE {o \in FreeBraces(cur, "{") : o < Least(closes)}
        IN  IF before # {}
            THEN /\ ectx = "region"
                 /\ bopen = Greatest(before)
                 /\ bclose = Least(closes)
                 /\ ein0 = SubSeq(cur, bopen + 2, bclose)
            ELSE /\ ectx = "flat"
                 /\ ein0 = cur

\* C8 witness: a region chosen behind an earlier unescaped '{'
C8_Witness ==
    /\ rkpc = "expand"
    /\ ectx = "region"
    /\ \E o \in FreeBraces(cur, "{") : o < bopen
    /\ ein0 # Empty

\* the keys of K taken greatest first, each applied to the text the earlier
\* ones left: <<text, whether a key with a non-empty value was found>>
RECURSIVE InTurn(_, _)
InTurn(s, K) ==
    IF K = {} THEN <<s, FALSE>>
    ELSE LET top == CHOOSE k \in K : \A o \in K \ {k} : LessStr(o, k)
             hit == Occurs(s, top)
             rest == InTurn(IF hit THEN Replace(s, top, m[top]) ELSE s,
                            K \ {top})
         IN  <<rest[1], rest[2] \/ (hit /\ m[top] # Empty)>>

\* C9 as the specification states it: flat expansion returns "" when no key with a non-empty
\* value occurs in the text it is given, and otherwise the text with the
\* keys replaced.
C9_EmptyUnlessKeyOccurs ==
    rkpc = "expanded" =>
        IF \E k \in DOMAIN m : m[k] # Empty /\ Occurs(ein0, k)
        THEN eout = InTurn(ein0, DOMAIN m)[1]
        ELSE eout = Empty

\* C9 amended: flat expansion takes the keys in descending order, each on
\* the text as the earlier keys left it; it returns "" when no key with a
\* non-empty value is found at its turn, and otherwise the rewritten text.
C9_EmptyUnlessKeyFoundInTurn ==
    rkpc = "expanded" =>
        LET r == InTurn(ein0, DOMAIN m)
        IN  eout = IF r[2] THEN r[1] ELSE Empty

\* C9 witness: "##xs" with #x empty and #s non-empty; #s appears only once
\* #x is gone
C9_Witness ==
    /\ rkpc = "expanded"
    /\ ein0 = <<"#", "#", "x", "s">>
    /\ m = (KeyX :> Empty) @@ (KeyS :> ValY)
    /\ eout = ValY

-----------------------------------------------------------------------------
(* FinalizeEPUB: paths.  A path string is a sequence of names and          *)
(* separators; the file system is keyed by the names alone.                *)

Slash == "/"

\* p.tmpDir, and the staging tree under it
tmpDir == <<"tmp">>

MimeType  == <<"tmp", "mimetype">>
RootCover == <<"tmp", "cover.jpg">>
Oebps     == <<"tmp", "OEBPS">>
Opf       == <<"tmp", "OEBPS", "content.opf">>
Images    == <<"tmp", "OEBPS", "images">>
Picture   == <<"tmp", "OEBPS", "images", "cover.jpg">>
Toc       == <<"tmp", "OEBPS", "toc.ncx">>

\* where the output file may be: outside the staging tree, at its root,
\* inside its content directory
OutDir    == <<"out">>
OutPaths  == {<<"out", "book.epub">>, <<"tmp", "book.epub">>,
              <<"tmp", "OEBPS", "book.epub">>}

TreePaths == {MimeType, RootCover, Oebps, Opf, Images, Picture, Toc}
AllPaths  == {tmpDir, OutDir} \cup TreePaths \cup OutPaths

\* the names in the bytewise order sort.Strings gives them
NameOrder == <<"OEBPS", "book.epub", "content.opf", "cover.jpg", "images",
               "mimetype", "out", "tmp", "toc.ncx">>

Names == {NameOrder[i] : i \in DOMAIN NameOrder}

NameRank(n) == CHOOSE i \in DOMAIN NameOrder : NameOrder[i] = n

\* the separators the platform recognises in a path
IsSeparator(t) == t = sep \/ (sep = "\\" /\ t = Slash)

\* the names of a path, joined by separator s
RECURSIVE Spell(_, _)
Spell(comps, s) ==
    IF Len(comps) <= 1 THEN comps
    ELSE <<Head(comps), s>> \o Spell(Tail(comps), s)

\* what a path string names
Components(path) == SelectSeq(path, LAMBDA t : ~IsSeparator(t))

\* filepath.ToSlash written without the replacement
ToSlashUnchanged(path) == path

\* filepath.ToSlash: every os.PathSeparator becomes '/'
ToSlash(path) ==
    [i \in DOMAIN path |-> IF path[i] = sep THEN Slash ELSE path[i]]

\* filepath.Join(path, name)
Join(path, name) == path \o <<sep, name>>

\* filepath.Dir: all but the last element, cleaned
Dir(path) ==
    LET c == Components(path)
    IN  Spell(SubSeq(c, 1, Len(c) - 1), sep)

\* filepath.Rel(base, path) for a path under base
Rel(base, path) ==
    LET c == Components(path)
    IN  Spell(SubSeq(c, Len(Components(base)) + 1, Len(c)), sep)

\* os.FileInfo.Name(): the last element
BaseName(path) == LET c == Components(path) IN <<c[Len(c)]>>

\* the output path as the caller wrote it
fnamePath == Spell(fname, fsep)

\* the names in a directory, sorted (readDirNames)
RECURSIVE SortNames(_)
SortNames(S) ==
    IF S = {} THEN << >>
    ELSE LET least == CHOOSE n \in S : \A o \in S : NameRank(n) <= NameRank(o)
         IN  <<least>> \o SortNames(S \ {least})

DirNames(fsys, comps) ==
    {n \in Names : Append(comps, n) \in DOMAIN fsys
                   /\ fsys[Append(comps, n)] # "none"}

\* filepath.Walk(root, fn): the paths handed to fn, in order: a directory,
\* then what each of its sorted names leads to, depth first; symbolic links
\* are not followed
RECURSIVE Walk(_, _)
Walk(fsys, path) ==
    IF fsys[Components(path)] # "dir" THEN <<path>>
    ELSE LET names == SortNames(DirNames(fsys, Components(path)))
             sub[i \in 0..Len(names)] ==
                 IF i = 0 THEN << >>
                 ELSE sub[i - 1] \o Walk(fsys, Join(path, names[i]))
         IN  <<path>> \o sub[Len(names)]

-----------------------------------------------------------------------------
(* FinalizeEPUB: the helpers *)

Kinds == {"none", "file", "dir", "link"}

\* the refusal test read with the overwrite flag the wrong way round
RefusesInverted(dbg, ow) == ~dbg /\ ow

\* !p.env.Debug && !p.overwrite
Refuses(dbg, ow) == ~dbg /\ ~ow

\* the directories above a path
ParentDirs(comps) == {SubSeq(comps, 1, n) : n \in 1..(Len(comps) - 1)}

\* the directories os.MkdirAll(dir) has to find or make: dir and those above
DirsUpTo(dir) == {SubSeq(dir, 1, n) : n \in 1..Len(dir)}

\* deferred calls run first in, first out
NextDeferredOldest(d) == 1

\* position of the deferred call that runs next: the last one registered
NextDeferred(d) == Len(d)

WithoutAt(d, i) == SubSeq(d, 1, i - 1) \o SubSeq(d, i + 1, Len(d))

\* what the outcomes of the I/O inside saveFile can be
IoOutcomes == {"ok", "createErr", "openErr", "copyErr"}

\* the closure saveFile on (path, info, err), `kind` being info.Mode() and
\* walkErr whether err is set, under I/O outcome io: the error returned,
\* the archive entries it created, the readers it opened and closed
saveFile(path, kind, walkErr, io) ==
    LET nothing == [e |-> "nil", wrote |-> << >>, opened |-> 0, closed |-> 0]
        entry == [name   |-> IF ~content THEN BaseName(path)
                             ELSE ToSlash(Rel(tmpDir, path)),
                  method |-> IF ~content THEN "Store" ELSE "Deflate",
                  src    |-> Components(path),
                  anchor |-> ~content]
    IN  IF walkErr THEN [nothing EXCEPT !.e = "walk"]
        ELSE IF kind # "file" THEN nothing
        ELSE IF ToSlash(path) = ToSlash(fnamePath) THEN nothing
        ELSE IF content /\ ToSlash(Dir(path)) = ToSlash(tmpDir) THEN nothing
        ELSE CASE io = "createErr" -> [nothing EXCEPT !.e = "create entry"]
               [] io = "openErr" ->
                    [nothing EXCEPT !.e = "open", !.wrote = <<entry>>]
               [] io = "copyErr" ->
                    [e |-> "copy", wrote |-> <<entry>>,
                     opened |-> 1, closed |-> 1]
               [] OTHER ->
                    [e |-> "nil", wrote |-> <<entry>>,
                     opened |-> 1, closed |-> 1]

-----------------------------------------------------------------------------
(* FinalizeEPUB: the state machine *)

\* the staging trees: every entry sits in a directory
Trees ==
    {t \in [TreePaths -> Kinds] :
        /\ t[MimeType] \in {"none", "file", "dir"}
        /\ t[RootCover] \in {"none", "file"}
        /\ t[Oebps] \in {"none", "dir"}
        /\ t[Opf] \in {"none", "file"}
        /\ t[Images] \in {"none", "dir", "link"}
        /\ t[Picture] \in {"none", "file"}
        /\ t[Toc] \in {"none", "file"}
        /\ (t[Oebps] = "none" => t[Opf] = "none" /\ t[Images] = "none"
                                 /\ t[Toc] = "none")
        /\ (t[Images] # "dir" => t[Picture] = "none")}

InitFinalize ==
    /\ sep \in {Slash, "\\"}
    /\ fname \in OutPaths
    /\ fsep \in {sep, Slash}
    /\ overwrite \in BOOLEAN
    /\ debug \in BOOLEAN
    /\ \E t \in Trees, there \in BOOLEAN :
         /\ fs = [q \in AllPaths |->
                    IF q \in TreePaths THEN t[q]
                    ELSE IF q = tmpDir THEN "dir"
                    ELSE IF q = OutDir THEN (IF there THEN "dir" ELSE "none")
                    ELSE IF q = fname /\ there THEN "file"
                    ELSE "none"]
         /\ \A d \in ParentDirs(fname) : there => fs[d] = "dir"
         /\ outData = IF there THEN "old" ELSE "none"
    /\ fpc = "start"
    /\ err = "nil"
    /\ statRes = "none"
    /\ content = FALSE
    /\ entries = << >>
    /\ defers = << >>
    /\ openLog = << >>
    /\ closeLog = << >>
    /\ rOpened = 0
    /\ rClosed = 0
    /\ walkList = << >>
    /\ trail = << >>
    /\ runs = 1
    /\ callKind = fs[fname]
    /\ callData = outData

\* os.Stat(fname) and the branch on its outcome
FStat ==
    /\ UNCHANGED rkVars
    /\ fpc = "start"
    /\ trail' = Append(trail, "stat")
    /\ \/ /\ fs[fname] # "none"
          /\ statRes' = "exists"
          /\ IF Refuses(debug, overwrite)
             THEN err' = "output file already exists" /\ fpc' = "defer"
             ELSE err' = err /\ fpc' = "remove"
       \/ /\ fs[fname] = "none"
          /\ statRes' = "notexist"
          /\ err' = err
          /\ fpc' = "mkdir"
       \/ /\ statRes' = "error"
          /\ err' = "stat"
          /\ fpc' = "defer"
    /\ UNCHANGED <<sep, fname, fsep, overwrite, debug, fs, outData, content,
                   entries, defers, openLog, closeLog, rOpened, rClosed,
                   walkList, runs, callKind, callData>>

\* os.Remove(fname)
FRemove ==
    /\ UNCHANGED rkVars
    /\ fpc = "remove"
    /\ trail' = Append(trail, "prepare")
    /\ \/ /\ fs' = [fs EXCEPT ![fname] = "none"]
          /\ outData' = "none"
          /\ err' = err
          /\ fpc' = "create"
       \/ /\ err' = "remove"
          /\ fpc' = "defer"
          /\ UNCHANGED <<fs, outData>>
    /\ UNCHANGED <<sep, fname, fsep, overwrite, debug, statRes, content,
                   entries, defers, openLog, closeLog, rOpened, rClosed,
                   walkList, runs, callKind, callData>>

\* os.MkdirAll(filepath.Dir(fname), 0700)
FMkdirAll ==
    /\ UNCHANGED rkVars
    /\ fpc = "mkdir"
    /\ trail' = Append(trail, "prepare")
    /\ \/ /\ \A d \in DirsUpTo(Components(Dir(fnamePath))) :
                fs[d] \in {"none", "dir"}
          /\ fs' = [q \in AllPaths |->
                      IF q \in DirsUpTo(Components(Dir(fnamePath)))
                      THEN "dir" ELSE fs[q]]
          /\ err' = err
          /\ fpc' = "create"
       \/ /\ err' = "unable to create output directory"
          /\ fpc' = "defer"
          /\ fs' = fs
    /\ UNCHANGED <<sep, fname, fsep, overwrite, debug, outData, statRes,
                   content, entries, defers, openLog, closeLog, rOpened,
                   rClosed, walkList, runs, callKind, callData>>

\* os.Create(fname), defer f.Close(), zip.NewWriter(f), defer epub.Close()
FCreate ==
    /\ UNCHANGED rkVars
    /\ fpc = "create"
    /\ trail' = Append(trail, "create")
    /\ \/ /\ \A d \in ParentDirs(fname) : fs[d] = "dir"
          /\ fs' = [fs EXCEPT ![fname] = "file"]
          /\ outData' = <<"written by call", runs>>
          /\ openLog' = <<"f", "epub">>
          /\ defers' = <<"f", "epub">>
          /\ err' = err
          /\ fpc' = "anchor"
       \/ /\ err' = "unable to create EPUB"
          /\ fpc' = "defer"
          /\ UNCHANGED <<fs, outData, openLog, defers>>
    /\ UNCHANGED <<sep, fname, fsep, overwrite, debug, statRes, content,
                   entries, closeLog, rOpened, rClosed, walkList, runs,
                   callKind, callData>>

\* os.Stat(mt) and saveFile(mt, info, nil), content being false
FAnchor ==
    /\ UNCHANGED rkVars
    /\ fpc = "anchor"
    /\ trail' = Append(trail, "anchor")
    /\ LET mt == Join(tmpDir, "mimetype")
       IN  \/ /\ err' = "unable to find mimetype file"
              /\ fpc' = "defer"
              /\ UNCHANGED <<entries, rOpened, rClosed>>
           \/ /\ fs[Components(mt)] # "none"
              /\ \E io \in IoOutcomes :
                   LET r == saveFile(mt, fs[Components(mt)], FALSE, io)
                   IN  /\ entries' = entries \o r.wrote
                       /\ rOpened' = rOpened + r.opened
                       /\ rClosed' = rClosed + r.closed
                       /\ IF r.e # "nil"
                          THEN /\ err' = "unable to add mimetype to EPUB"
                               /\ fpc' = "defer"
                          ELSE /\ err' = err
                               /\ fpc' = "walkstart"
    /\ UNCHANGED <<sep, fname, fsep, overwrite, debug, fs, outData, statRes,
                   content, defers, openLog, closeLog, walkList, runs,
                   callKind, callData>>

\* content = true, and filepath.Walk(p.tmpDir, saveFile) sets out
FWalkStart ==
    /\ UNCHANGED rkVars
    /\ fpc = "walkstart"
    /\ trail' = Append(trail, "walk")
    /\ content' = TRUE
    /\ walkList' = Walk(fs, tmpDir)
    /\ fpc' = "walk"
    /\ UNCHANGED <<sep, fname, fsep, overwrite, debug, fs, outData, err,
                   statRes, entries, defers, openLog, closeLog, rOpened,
                   rClosed, runs, callKind, callData>>

\* filepath.Walk hands the next path to saveFile, with the error it met
\* reading it if any, and stops at the first error saveFile returns
FWalkStep ==
    /\ UNCHANGED rkVars
    /\ fpc = "walk"
    /\ walkList # << >>
    /\ \E io \in IoOutcomes, walkErr \in BOOLEAN :
         LET path == Head(walkList)
             r == saveFile(path, fs[Components(path)], walkErr, io)
         IN  /\ entries' = entries \o r.wrote
             /\ rOpened' = rOpened + r.opened
             /\ rClosed' = rClosed + r.closed
             /\ IF r.e # "nil"
                THEN /\ err' = "unable to add file to EPUB"
                     /\ fpc' = "defer"
                     /\ walkList' = walkList
                ELSE /\ err' = err
                     /\ fpc' = fpc
                     /\ walkList' = Tail(walkList)
    /\ UNCHANGED <<sep, fname, fsep, overwrite, debug, fs, outData, statRes,
                   content, defers, openLog, closeLog, trail, runs,
                   callKind, callData>>

\* filepath.Walk returns nil, and so does FinalizeEPUB
FWalkDone ==
    /\ UNCHANGED rkVars
    /\ fpc = "walk"
    /\ walkList = << >>
    /\ fpc' = "defer"
    /\ UNCHANGED <<sep, fname, fsep, overwrite, debug, fs, outData, err,
                   statRes, content, entries, defers, openLog, closeLog,
                   rOpened, rClosed, walkList, trail, runs, callKind,
                   callData>>

\* on the way out, one deferred Close() runs
FDefer ==
    /\ UNCHANGED rkVars
    /\ fpc = "defer"
    /\ defers # << >>
    /\ closeLog' = Append(closeLog, defers[NextDeferred(defers)])
    /\ defers' = WithoutAt(defers, NextDeferred(defers))
    /\ trail' = IF closeLog = << >> THEN Append(trail, "close") ELSE trail
    /\ UNCHANGED <<sep, fname, fsep, overwrite, debug, fs, outData, fpc, err,
                   statRes, content, entries, openLog, rOpened, rClosed,
                   walkList, runs, callKind, callData>>

\* the call is back at its caller
FReturn ==
    /\ UNCHANGED rkVars
    /\ fpc = "defer"
    /\ defers = << >>
    /\ fpc' = "returned"
    /\ UNCHANGED <<sep, fname, fsep, overwrite, debug, fs, outData, err,
                   statRes, content, entries, defers, openLog, closeLog,
                   rOpened, rClosed, walkList, trail, runs, callKind,
                   callData>>

\* the caller calls FinalizeEPUB(fname) once more
FAgain ==
    /\ UNCHANGED rkVars
    /\ fpc = "returned"
    /\ runs < MaxRuns
    /\ runs' = runs + 1
    /\ fpc' = "start"
    /\ err' = "nil"
    /\ statRes' = "none"
    /\ content' = FALSE
    /\ entries' = << >>
    /\ defers' = << >>
    /\ openLog' = << >>
    /\ closeLog' = << >>
    /\ rOpened' = 0
    /\ rClosed' = 0
    /\ walkList' = << >>
    /\ trail' = << >>
    /\ callKind' = fs[fname]
    /\ callData' = outData
    /\ UNCHANGED <<sep, fname, fsep, overwrite, debug, fs, outData>>

NextFinalize ==
    \/ FStat
    \/ FRemove
    \/ FMkdirAll
    \/ FCreate
    \/ FAnchor
    \/ FWalkStart
    \/ FWalkStep
    \/ FWalkDone
    \/ FDefer
    \/ FReturn
    \/ FAgain

\* the template engine at rest
TemplateIdle ==
    /\ pattern = Empty
    /\ m = NoKeys
    /\ cur = Empty
    /\ depth = 0
    /\ rkpc = "idle"
    /\ bopen = -1
    /\ bclose = -1
    /\ ectx = "none"
    /\ ein0 = Empty
    /\ ein = Empty
    /\ keys = << >>
    /\ ki = 0
    /\ expanded = FALSE
    /\ eout = Empty
    /\ result = Empty

\* no FinalizeEPUB call under way
FinalizeIdle ==
    /\ sep = Slash
    /\ fname = <<"out", "book.epub">>
    /\ fsep = Slash
    /\ overwrite = FALSE
    /\ debug = FALSE
    /\ fs = << >>
    /\ outData = "none"
    /\ fpc = "idle"
    /\ err = "nil"
    /\ statRes = "none"
    /\ content = FALSE
    /\ entries = << >>
    /\ defers = << >>
    /\ openLog = << >>
    /\ closeLog = << >>
    /\ rOpened = 0
    /\ rClosed = 0
    /\ walkList = << >>
    /\ trail = << >>
    /\ runs = 0
    /\ callKind = "none"
    /\ callData = "none"

\* the template engine at work, no FinalizeEPUB call under way
InitTemplateOnly == InitTemplate /\ FinalizeIdle

SpecTemplate == InitTemplateOnly /\ [][NextTemplate]_vars

\* FinalizeEPUB at work, the template engine at rest
InitFinalizeOnly == InitFinalize /\ TemplateIdle

SpecFinalize == InitFinalizeOnly /\ [][NextFinalize]_vars

-----------------------------------------------------------------------------
(* FinalizeEPUB: properties *)

\* the entries the directory walk wrote
WalkEntries == SelectSeq(entries, LAMBDA e : ~e.anchor)

\* a comes before b in a lexical depth-first walk: a directory before what
\* is in it, names in sorted order
RECURSIVE PathBefore(_, _)
PathBefore(a, b) ==
    IF a = << >> THEN b # << >>
    ELSE IF b = << >> THEN FALSE
    ELSE IF Head(a) # Head(b) THEN NameRank(Head(a)) < NameRank(Head(b))
    ELSE PathBefore(Tail(a), Tail(b))

RECURSIVE InWalkOrder(_)
InWalkOrder(S) ==
    IF S = {} THEN << >>
    ELSE LET first == CHOOSE a \in S : \A b \in S \ {a} : PathBefore(a, b)
         IN  <<first>> \o InWalkOrder(S \ {first})

\* the regular files of the staging tree that are neither the output file
\* nor direct children of the staging root
ContentFiles ==
    {q \in AllPaths : /\ fs[q] = "file"
                      /\ Len(q) > 2
                      /\ Head(q) = Head(tmpDir)
                      /\ q # fname}

\* the phases of a call, in order
Phases == <<"stat", "prepare", "create", "anchor", "walk">>

Reverse(q) == [i \in 1..Len(q) |-> q[Len(q) + 1 - i]]

\* C5: whenever the archive has an entry, the first one is the anchor
\* ("mimetype" at the staging root), stored, under its bare name, and no
\* later entry is the anchor again.
C5_AnchorFirstStoredOnce ==
    entries # << >> =>
        /\ entries[1].src = MimeType
        /\ entries[1].name = <<"mimetype">>
        /\ entries[1].method = "Store"
        /\ \A i \in 2..Len(entries) : entries[i].src # MimeType

\* C6: a call that finds the output path existing, with overwrite false and
\* debug off, fails with "output file already exists" and leaves the file
\* as it was: not removed, not opened, not rewritten; so for every call in
\* a row.
C6_ExistingOutputUntouched ==
    (callKind # "none" /\ ~overwrite /\ ~debug) =>
        /\ fs[fname] = callKind
        /\ outData = callData
        /\ openLog = << >>
        /\ entries = << >>
        /\ fpc = "returned" =>
             /\ err # "nil"
             /\ statRes = "exists" => err = "output file already exists"

\* C6 witness: the second call in a row refused, the file still the old one
C6_Witness ==
    /\ fpc = "returned"
    /\ runs = 2
    /\ ~overwrite
    /\ ~debug
    /\ err = "output file already exists"
    /\ callData = "old"
    /\ outData = "old"

\* C7: after a successful call the entries after the anchor are exactly the
\* regular files of the staging tree that are neither the output file nor
\* direct children of the staging root, once each, in the order of the
\* lexical depth-first walk, each named by its path relative to the staging
\* root with '/' between the names.
C7_WalkEntriesAreContentFiles ==
    (fpc = "returned" /\ err = "nil") =>
        LET rest == WalkEntries
            want == InWalkOrder(ContentFiles)
            lead == Len(entries) - Len(rest)
        IN  /\ lead <= 1
            /\ entries = SubSeq(entries, 1, lead) \o rest
            /\ Len(rest) = Len(want)
            /\ \A i \in 1..Len(rest) :
                 /\ rest[i].src = want[i]
                 /\ rest[i].name = Spell(Tail(want[i]), "/")
                 /\ \A j \in 1..Len(rest[i].name) : rest[i].name[j] # "\\"

\* C7 witness: a successful call on a platform whose separator is '\', the
\* output file inside the content directory, a file at the staging root, a
\* symbolic link or a directory passed over, and three content files
C7_Witness ==
    /\ fpc = "returned"
    /\ err = "nil"
    /\ sep = "\\"
    /\ fname = <<"tmp", "OEBPS", "book.epub">>
    /\ fs[RootCover] = "file"
    /\ fs[Images] = "dir"
    /\ Len(entries) = 4
    /\ entries[3].name = <<"OEBPS", "/", "images", "/", "cover.jpg">>

\* C10: a call goes through its phases in the one order stat, prepare,
\* create, anchor, walk, none twice; a failure ends it: nothing but the
\* closing follows; and when it is back, everything it opened is closed,
\* the archive writer before the output file, every member reader too.
C10_PhasesInOrderAndClosed ==
    /\ \E n \in 0..Len(Phases) :
         \/ trail = SubSeq(Phases, 1, n)
         \/ trail = SubSeq(Phases, 1, n) \o <<"close">>
    /\ err # "nil" => fpc \in {"defer", "returned"}
    /\ rOpened = rClosed
    /\ closeLog # << >> => fpc \in {"defer", "returned"}
    /\ fpc = "returned" =>
         /\ defers = << >>
         /\ closeLog = Reverse(openLog)
         /\ openLog # << >> => closeLog = <<"epub", "f">>

\* C10 witness: a call that failed in the walk after reading the anchor,
\* back with the writer and the file closed in that order
C10_Witness ==
    /\ fpc = "returned"
    /\ err = "unable to add file to EPUB"
    /\ rOpened >= 1
    /\ trail = Phases \o <<"close">>
    /\ closeLog = <<"epub", "f">>

=============================================================================
